---- MODULE Spec2Model ----
(***************************************************************************)
(* The sequential ptychographic solvers of ptycho/pie.py, epie_recon and   *)
(* epie_joint_recon, as one state machine.                                 *)
(*                                                                         *)
(* Numbers.  The code computes in complex128.  Here a real number is a     *)
(* fixed-point integer v standing for v/Scale, a complex number is a pair  *)
(* <<re, im>> of such integers, products and quotients are rounded to the  *)
(* nearest representable value, and a component whose magnitude exceeds    *)
(* MaxMag overflows to the non-finite value NaN, which (like IEEE NaN/Inf  *)
(* in this code) is absorbed by every later operation.                     *)
(*                                                                         *)
(* Arrays.  The object is one row of L pixels (a sequence), the probe is   *)
(* 1 x 2, and measurement j looks at columns j, j+1, so consecutive        *)
(* windows overlap in one pixel.  Fourier-domain values are kept in units  *)
(* of sqrt(2), which makes the unitary 2-point transform exact.            *)
(***************************************************************************)
EXTENDS Integers, Sequences, FiniteSets, TLC

\* ---------------------------------------------------------------- bounds
MaxIter == 2
NumAgts == 2

\* ------------------------------------------------------------ arithmetic
Scale == 2^6
MaxMag == 2^14
NaN == MaxMag + 1
CNaN == <<NaN, NaN>>

One == Scale
CZero == <<0, 0>>
COne == <<Scale, 0>>

RDiv(n, d) == IF d > 0 THEN (2 * n + d) \div (2 * d)
                       ELSE (-(2 * n) - d) \div (-(2 * d))

RFin(v) == IF v > MaxMag \/ v < -MaxMag THEN NaN ELSE v

RAdd(a, b) == IF a = NaN \/ b = NaN THEN NaN ELSE RFin(a + b)

RMul(a, b) == IF a = NaN \/ b = NaN THEN NaN ELSE RFin(RDiv(a * b, Scale))

RQuot(a, b) == IF a = NaN \/ b = NaN \/ b = 0 THEN NaN ELSE RFin(RDiv(a * Scale, b))

RECURSIVE SqrtSearch(_, _, _)
SqrtSearch(n, lo, hi) ==
    IF lo >= hi THEN lo
    ELSE LET mid == (lo + hi + 1) \div 2
         IN  IF mid * mid <= n THEN SqrtSearch(n, mid, hi)
                               ELSE SqrtSearch(n, lo, mid - 1)

ISqrt(n) == SqrtSearch(n, 0, 2 * MaxMag)

RSqrt(a) == IF a = NaN \/ a < 0 THEN NaN ELSE RFin(ISqrt(a * Scale))

IsNaN(z) == z[1] = NaN \/ z[2] = NaN

Mk(re, im) == IF RFin(re) = NaN \/ RFin(im) = NaN THEN CNaN ELSE <<re, im>>

ToC(r) == IF r = NaN THEN CNaN ELSE <<r, 0>>

CAdd(x, y) == IF IsNaN(x) \/ IsNaN(y) THEN CNaN ELSE Mk(x[1] + y[1], x[2] + y[2])

CSub(x, y) == IF IsNaN(x) \/ IsNaN(y) THEN CNaN ELSE Mk(x[1] - y[1], x[2] - y[2])

CMul(x, y) == IF IsNaN(x) \/ IsNaN(y) THEN CNaN
              ELSE Mk(RDiv(x[1] * y[1] - x[2] * y[2], Scale),
                      RDiv(x[1] * y[2] + x[2] * y[1], Scale))

CConj(x) == IF IsNaN(x) THEN CNaN ELSE <<x[1], -x[2]>>

CScale(r, x) == IF r = NaN \/ IsNaN(x) THEN CNaN
                ELSE Mk(RDiv(r * x[1], Scale), RDiv(r * x[2], Scale))

CDivR(x, r) == IF r = NaN \/ r = 0 \/ IsNaN(x) THEN CNaN
               ELSE Mk(RDiv(x[1] * Scale, r), RDiv(x[2] * Scale, r))

CHalf(x) == IF IsNaN(x) THEN CNaN ELSE Mk(RDiv(x[1], 2), RDiv(x[2], 2))

CAbs(x) == IF IsNaN(x) THEN NaN ELSE RFin(ISqrt(x[1] * x[1] + x[2] * x[2]))

\* ---------------------------------------------------------------- arrays
AbsArr(a) == [p \in DOMAIN a |-> CAbs(a[p])]

RECURSIVE AMaxTo(_, _)
AMaxTo(a, n) ==
    IF n = 1 THEN a[1]
    ELSE LET m == AMaxTo(a, n - 1)
         IN  IF m = NaN \/ a[n] = NaN THEN NaN
             ELSE IF a[n] > m THEN a[n] ELSE m

AMax(a) == AMaxTo(a, Len(a))

RECURSIVE RSumTo(_, _)
RSumTo(a, n) == IF n = 0 THEN 0 ELSE RAdd(RSumTo(a, n - 1), a[n])

RSum(a) == RSumTo(a, Len(a))

RECURSIVE CSumTo(_, _)
CSumTo(a, n) == IF n = 0 THEN CZero ELSE CAdd(CSumTo(a, n - 1), a[n])

CSum(a) == CSumTo(a, Len(a))

ArrMul(a, b) == [p \in DOMAIN a |-> CMul(a[p], b[p])]

ArrSub(a, b) == [p \in DOMAIN a |-> CSub(a[p], b[p])]

ArrAdd(a, b) == [p \in DOMAIN a |-> CAdd(a[p], b[p])]

ArrConj(a) == [p \in DOMAIN a |-> CConj(a[p])]

ArrScale(r, a) == [p \in DOMAIN a |-> CScale(r, a[p])]

ArrDivR(a, r) == [p \in DOMAIN a |-> CDivR(a[p], r)]

Mask(a, w) == [p \in DOMAIN a |-> CScale(w[p], a[p])]

Ones(n) == [p \in 1..n |-> One]

AllFinite(a) == \A p \in DOMAIN a : ~IsNaN(a[p])

AllZero(a) == \A p \in DOMAIN a : a[p] = CZero

RECURSIVE FlattenTo(_, _)
FlattenTo(stack, n) == IF n = 0 THEN <<>> ELSE FlattenTo(stack, n - 1) \o stack[n - 1]

Flatten(stack) == FlattenTo(stack, Cardinality(DOMAIN stack))

\* ------------------------------------------- helpers from utils (not in src)
\* utils.img2patch: the window of the object each measurement looks at, copied.
Patch(obj, crd) == [t \in 1..(crd[4] - crd[3]) |-> obj[crd[3] + t]]

img2patch(obj, coords) == [j \in DOMAIN coords |-> Patch(obj, coords[j])]

\* utils.compute_ft / compute_ift: the unitary 2-point transform and its inverse
\* (spectrum in units of sqrt(2)).
compute_ft(x) == <<CHalf(CAdd(x[1], x[2])), CHalf(CSub(x[1], x[2]))>>

compute_ift(u) == <<CAdd(u[1], u[2]), CSub(u[1], u[2])>>

\* utils.divide_cmplx_numbers(num, |num|): zero-magnitude bins are protected.
divide_cmplx_numbers(num, den) ==
    [p \in DOMAIN num |-> IF den[p] = 0 THEN CZero ELSE CDivR(num[p], den[p])]

\* The global phase factor phase_norm applies, and phase_norm itself.
PhaseFactor(img, ref) ==
    LET s == CSum(ArrMul(ArrConj(img), ref))
    IN  IF IsNaN(s) THEN CNaN
        ELSE IF s = CZero THEN COne
        ELSE CDivR(s, CAbs(s))

phase_norm(img, ref) == [p \in DOMAIN img |-> CMul(PhaseFactor(img, ref), img[p])]

\* utils.compute_nrmse: sqrt( sum cstr |img - ref|^2 / sum cstr |ref|^2 ).
SqErr(img, ref, cstr) ==
    [p \in DOMAIN img |->
        LET a == CAbs(CSub(img[p], ref[p])) IN RMul(cstr[p], RMul(a, a))]

SqRef(ref, cstr) ==
    [p \in DOMAIN ref |-> LET a == CAbs(ref[p]) IN RMul(cstr[p], RMul(a, a))]

compute_nrmse(img, ref, cstr) ==
    RSqrt(RQuot(RSum(SqErr(img, ref, cstr)), RSum(SqRef(ref, cstr))))

\* ------------------------------------------------------ numpy expressions
\* np.exp(1j * np.angle(z)): the unit phasor of z; np.angle(0) is 0.
Phasor(z) == IF IsNaN(z) THEN CNaN
             ELSE IF z = CZero THEN COne
             ELSE CDivR(z, CAbs(z))

\* obj[c0:c1, c2:c3] += upd
AddAt(obj, crd, upd) ==
    [p \in DOMAIN obj |->
        IF crd[3] < p /\ p <= crd[4] THEN CAdd(obj[p], upd[p - crd[3]]) ELSE obj[p]]

\* np.max(np.abs(a)) ** 2
MaxAbsSq(a) == LET m == AMax(AbsArr(a)) IN RMul(m, m)

RealArr(a) == [p \in DOMAIN a |-> ToC(a[p])]

\* np.abs(compute_ft(probe * img2patch(obj, coords))), all measurements in a row
DiffractionEst(obj, probe, coords) ==
    Flatten([j \in DOMAIN coords |->
                AbsArr(compute_ft(ArrMul(probe, Patch(obj, coords[j]))))])

\* ------------------------------------------------- one correction (a step)
\* step_sz * np.conj(probe) * diff / np.max(np.abs(probe)) ** 2
ObjIncrement(probe, diff, step) ==
    ArrDivR(ArrMul(ArrScale(step, ArrConj(probe)), diff), MaxAbsSq(probe))

\* probe_step_sz * np.conj(projected_img) * delta_frm / np.amax(np.abs(projected_img)) ** 2
ProbeIncrement(patch, diff, step) ==
    ArrDivR(ArrMul(ArrScale(step, ArrConj(patch)), diff), MaxAbsSq(patch))

\* epie_recon: IFT{ y * FT{f} / |FT{f}| } for the field f = frm[j]
EpieProject(f, y) ==
    LET freq == compute_ft(f)
    IN  compute_ift([t \in DOMAIN f |-> CScale(y[t], Phasor(freq[t]))])

\* epie_joint_recon: the same projection through divide_cmplx_numbers
JointProject(f, y) ==
    LET freq == compute_ft(f)
        unit == divide_cmplx_numbers(freq, AbsArr(freq))
    IN  compute_ift([t \in DOMAIN f |-> CScale(y[t], unit[t])])

\* A variant of EpieStep that also updates the probe, the way the joint solver does.
EpieStepWritesProbe(obj, probe, f, y, crd, step) ==
    LET fu == EpieProject(f, y)
    IN  [obj        |-> AddAt(obj, crd, ObjIncrement(probe, ArrSub(fu, f), step)),
         probe      |-> ArrAdd(probe, ProbeIncrement(Patch(obj, crd), ArrSub(fu, f), step)),
         frm_update |-> fu]

\* The body of epie_recon's inner loop for one measurement: f is frm[j], y is
\* diffraction_data[j], crd is projection_coords[j].
EpieStep(obj, probe, f, y, crd, step) ==
    LET fu == EpieProject(f, y)
    IN  [obj        |-> AddAt(obj, crd, ObjIncrement(probe, ArrSub(fu, f), step)),
         probe      |-> probe,
         frm_update |-> fu]

\* A variant of JointStep whose probe update reads the patch after the object
\* write-back of the same step.
JointStepPostUpdatePatch(obj, probe, y, crd, so, sp) ==
    LET projected_img == Patch(obj, crd)
        f             == ArrMul(projected_img, probe)
        delta_frm     == ArrSub(JointProject(f, y), f)
        obj1          == AddAt(obj, crd, ObjIncrement(probe, delta_frm, so))
    IN  [obj   |-> obj1,
         probe |-> ArrAdd(probe, ProbeIncrement(Patch(obj1, crd), delta_frm, sp)),
         frm   |-> f]

\* The body of epie_joint_recon's inner loop for one measurement.
JointStep(obj, probe, y, crd, so, sp) ==
    LET projected_img == Patch(obj, crd)
        f             == ArrMul(projected_img, probe)
        delta_frm     == ArrSub(JointProject(f, y), f)
    IN  [obj   |-> AddAt(obj, crd, ObjIncrement(probe, delta_frm, so)),
         probe |-> ArrAdd(probe, ProbeIncrement(projected_img, delta_frm, sp)),
         frm   |-> f]

\* True when the step divides by a zero maximum magnitude (numpy then issues its
\* generic RuntimeWarning and stores NaN/Inf).
EpieZeroDivide(probe) == MaxAbsSq(probe) = 0

JointZeroDivide(obj, probe, crd) ==
    MaxAbsSq(probe) = 0 \/ MaxAbsSq(Patch(obj, crd)) = 0

\* random.shuffle(seq): the list in some order of its positions.
Bijections(n) == {pi \in [1..n -> 1..n] : \A a, b \in 1..n : a # b => pi[a] # pi[b]}

\* A variant of Shuffle that draws every position independently.
SampleWithReplacement(s) == {[n \in 1..Len(s) |-> s[f[n]]] : f \in [1..Len(s) -> 1..Len(s)]}

Shuffle(s) == {[n \in 1..Len(s) |-> s[pi[n]]] : pi \in Bijections(Len(s))}

\* A variant of LoopContinues that runs one pass too many.
LoopRunsOnceMore(i_, n) == i_ + 1 <= n

\* for i in range(num_iter): another pass follows pass i
LoopContinues(i_, n) == i_ + 1 < n

\* ------------------------------------------------------------------ state
VARIABLES
    \* the call's arguments (obj_ref, probe_ref and display_win are local names
    \* the code rebinds; *_in is the object the caller passed)
    solver, init_obj, init_probe, diffraction_data, projection_coords,
    obj_ref_in, probe_ref_in, obj_ref, probe_ref, num_iter,
    obj_step_sz, probe_step_sz, display_win, save_dir,
    \* the locals of the running call
    pc, i, k, seq, obj_est, probe_est, frm, frm_update,
    obj_revy, probe_revy, obj_nrmse_ls, probe_nrmse_ls, diffr_nrmse_ls,
    output, exc, warnings,
    \* history: the measurements corrected so far in this pass, the number of
    \* shuffles done, the estimates as each completed pass left them, and the
    \* same corrections replayed with no error monitor at all
    visited, shuffles, snaps, mf

args == <<solver, init_obj, init_probe, diffraction_data, projection_coords,
          obj_ref_in, probe_ref_in, num_iter, obj_step_sz, probe_step_sz, save_dir>>

vars == <<solver, init_obj, init_probe, diffraction_data, projection_coords,
          obj_ref_in, probe_ref_in, obj_ref, probe_ref, num_iter,
          obj_step_sz, probe_step_sz, display_win, save_dir,
          pc, i, k, seq, obj_est, probe_est, frm, frm_update,
          obj_revy, probe_revy, obj_nrmse_ls, probe_nrmse_ls, diffr_nrmse_ls,
          output, exc, warnings, visited, shuffles, snaps, mf>>

\* A name bound to an array, to None, to the live estimate itself (an alias,
\* not a copy), or not bound yet.
Arr(a) == [kind |-> "array", val |-> a]
NoneRef == [kind |-> "None", val |-> <<>>]
LiveRef == [kind |-> "live", val |-> <<>>]
Unbound == [kind |-> "unbound", val |-> <<>>]

Deref(r, live) == IF r.kind = "live" THEN live ELSE r.val

\* ----------------------------------------------------------------- inputs
C(re, im) == <<re * Scale, im * Scale>>

ObjLen == NumAgts + 1

Agts == 0..(NumAgts - 1)

\* projection_coords[j] = (row_start, row_end, col_start, col_end)
Coords == [j \in Agts |-> <<0, 1, j, j + 2>>]

\* Initial guesses (1, i, 1, ..) and (0, 0, 1, ..); probes (1, 1+i) and (0, 0).
InitObjs == << [p \in 1..ObjLen |-> IF p = 2 THEN C(0, 1) ELSE C(1, 0)],
               [p \in 1..ObjLen |-> IF p <= 2 THEN CZero ELSE C(1, 0)] >>

Probes == << <<C(1, 0), C(1, 1)>>, <<CZero, CZero>> >>

Data == [j \in Agts |-> IF j = 0 THEN <<2 * Scale, Scale>> ELSE <<Scale, Scale>>]

ObjRefs == { NoneRef, Arr([p \in 1..ObjLen |-> C(1, 0)]) }

ProbeRefs == { NoneRef, Arr(<<C(1, 0), C(1, 0)>>) }

DisplayWins == { NoneRef, Arr([p \in 1..ObjLen |-> IF p = ObjLen THEN 0 ELSE One]) }

SaveDirs == { "None", "out/" }

NoOutput == [keys |-> {}, obj_revy |-> Unbound, probe_revy |-> Unbound,
             obj_err |-> <<>>, probe_err |-> <<>>, diffr_err |-> <<>>]

Init ==
    /\ solver \in {"epie", "joint"}
    /\ \E n \in DOMAIN InitObjs : init_obj = InitObjs[n]
    /\ \E n \in DOMAIN Probes : init_probe = Probes[n]
    /\ diffraction_data = Data
    /\ projection_coords = Coords
    /\ obj_ref_in \in ObjRefs
    /\ probe_ref_in \in IF solver = "epie" THEN {Arr(init_probe)} ELSE ProbeRefs
    /\ obj_ref = obj_ref_in
    /\ probe_ref = probe_ref_in
    /\ num_iter \in 1..MaxIter
    /\ obj_step_sz = One
    /\ probe_step_sz = One
    /\ display_win \in DisplayWins
    /\ save_dir \in SaveDirs
    /\ pc = "start"
    /\ i = -1
    /\ k = 0
    /\ seq = <<>>
    /\ obj_est = <<>>
    /\ probe_est = <<>>
    /\ frm = <<>>
    /\ frm_update = <<>>
    /\ obj_revy = Unbound
    /\ probe_revy = Unbound
    /\ obj_nrmse_ls = <<>>
    /\ probe_nrmse_ls = <<>>
    /\ diffr_nrmse_ls = <<>>
    /\ output = NoOutput
    /\ exc = "none"
    /\ warnings = {}
    /\ visited = <<>>
    /\ shuffles = 0
    /\ snaps = <<>>
    /\ mf = [obj |-> <<>>, probe |-> <<>>, frm |-> <<>>]

\* ---------------------------------------------------------- error monitor
\* compute_nrmse(|FT(probe * patches)|, diffraction_data, ones)
DiffrNrmse(obj, probe) ==
    compute_nrmse(RealArr(DiffractionEst(obj, probe, projection_coords)),
                  RealArr(Flatten(diffraction_data)),
                  Ones(Len(Flatten(diffraction_data))))

\* A variant of ObjRevy that normalises the initial guess instead of the live estimate.
ObjRevyOfInitialGuess(obj, ref, win) == phase_norm(Mask(init_obj, win), Mask(ref, win))

\* phase_norm(np.copy(obj_est) * display_win, obj_ref * display_win)
ObjRevy(obj, ref, win) == phase_norm(Mask(obj, win), Mask(ref, win))

\* compute_nrmse(obj_revy * display_win, obj_ref * display_win, display_win)
ObjNrmse(revy, ref, win) == compute_nrmse(Mask(revy, win), Mask(ref, win), win)

\* compute_nrmse(probe_revy, probe_ref, np.ones(probe_revy.shape))
ProbeNrmse(revy, ref) == compute_nrmse(revy, ref, Ones(Len(revy)))

\* A variant of LiveAfterMaskedCopy: the mask applied to the live array in place.
LiveMaskedInPlace(obj, win) == Mask(obj, win)

\* np.copy(obj_est) * display_win builds the masked image in a fresh array: the
\* live array keeps its values.
LiveAfterMaskedCopy(obj, win) == obj

\* The estimates as the correction that completes a pass leaves them.
Snap(done, obj, probe) ==
    IF done = NumAgts THEN Append(snaps, [obj |-> obj, probe |-> probe]) ELSE snaps

\* ------------------------------------------------------------- epie_recon
EpieInit ==
    /\ solver = "epie" /\ pc = "start"
    /\ display_win' = IF display_win.kind = "None" THEN Arr(Ones(Len(init_obj)))
                                                   ELSE display_win
    /\ obj_est' = init_obj
    /\ probe_est' = probe_ref.val
    /\ seq' = [n \in 1..NumAgts |-> n - 1]
    /\ obj_nrmse_ls' = <<>>
    /\ diffr_nrmse_ls' = <<>>
    /\ mf' = [obj |-> init_obj, probe |-> probe_ref.val, frm |-> <<>>]
    /\ pc' = "loop"
    /\ UNCHANGED <<args, obj_ref, probe_ref, i, k, frm, frm_update, obj_revy,
                   probe_revy, probe_nrmse_ls, output, exc, warnings, visited,
                   shuffles, snaps>>

EpiePassStart ==
    /\ solver = "epie" /\ pc = "loop" /\ LoopContinues(i, num_iter)
    /\ i' = i + 1
    /\ frm' = [j \in Agts |-> ArrMul(img2patch(obj_est, projection_coords)[j], probe_est)]
    /\ frm_update' = [j \in Agts |-> [t \in 1..Len(probe_est) |-> CZero]]
    /\ seq' \in Shuffle(seq)
    /\ shuffles' = shuffles + 1
    /\ k' = 0
    /\ visited' = <<>>
    /\ mf' = [mf EXCEPT !.frm = [j \in Agts |->
                  ArrMul(img2patch(mf.obj, projection_coords)[j], mf.probe)]]
    /\ pc' = "pass"
    /\ UNCHANGED <<args, obj_ref, probe_ref, display_win, obj_est, probe_est,
                   obj_revy, probe_revy, obj_nrmse_ls, probe_nrmse_ls,
                   diffr_nrmse_ls, output, exc, warnings, snaps>>

EpieCorrect ==
    /\ solver = "epie" /\ pc = "pass" /\ k < Len(seq)
    /\ LET j == seq[k + 1]
           r == EpieStep(obj_est, probe_est, frm[j], diffraction_data[j],
                         projection_coords[j], obj_step_sz)
           m == EpieStep(mf.obj, mf.probe, mf.frm[j], diffraction_data[j],
                         projection_coords[j], obj_step_sz)
       IN  /\ frm_update' = [frm_update EXCEPT ![j] = r.frm_update]
           /\ obj_est' = r.obj
           /\ probe_est' = r.probe
           /\ warnings' = IF EpieZeroDivide(probe_est)
                          THEN warnings \cup {"RuntimeWarning"} ELSE warnings
           /\ visited' = Append(visited, j)
           /\ snaps' = Snap(k + 1, r.obj, r.probe)
           /\ mf' = [mf EXCEPT !.obj = m.obj, !.probe = m.probe]
    /\ k' = k + 1
    /\ UNCHANGED <<args, obj_ref, probe_ref, display_win, pc, i, seq, frm,
                   obj_revy, probe_revy, obj_nrmse_ls, probe_nrmse_ls,
                   diffr_nrmse_ls, output, exc, shuffles>>

EpieDiffrErr ==
    /\ solver = "epie" /\ pc = "pass" /\ k = Len(seq)
    /\ diffr_nrmse_ls' = Append(diffr_nrmse_ls, DiffrNrmse(obj_est, probe_est))
    /\ pc' = "objerr"
    /\ UNCHANGED <<args, obj_ref, probe_ref, display_win, i, k, seq, obj_est,
                   probe_est, frm, frm_update, obj_revy, probe_revy, obj_nrmse_ls,
                   probe_nrmse_ls, output, exc, warnings, visited, shuffles,
                   snaps, mf>>

\* np.copy(None) * display_win raises TypeError.
EpieObjErr ==
    /\ solver = "epie" /\ pc = "objerr"
    /\ IF obj_ref.kind = "None"
       THEN /\ pc' = "error"
            /\ exc' = "TypeError"
            /\ UNCHANGED <<obj_est, obj_revy, obj_nrmse_ls>>
       ELSE LET revy == ObjRevy(obj_est, obj_ref.val, display_win.val)
            IN  /\ obj_revy' = Arr(revy)
                /\ obj_nrmse_ls' = Append(obj_nrmse_ls,
                                          ObjNrmse(revy, obj_ref.val, display_win.val))
                /\ obj_est' = LiveAfterMaskedCopy(obj_est, display_win.val)
                /\ pc' = "loop"
                /\ exc' = exc
    /\ UNCHANGED <<args, obj_ref, probe_ref, display_win, i, k, seq, probe_est,
                   frm, frm_update, probe_revy, probe_nrmse_ls, diffr_nrmse_ls,
                   output, warnings, visited, shuffles, snaps, mf>>

\* save_dir + '...' raises TypeError when save_dir is None.
EpieFinish ==
    /\ solver = "epie" /\ pc = "loop" /\ ~LoopContinues(i, num_iter)
    /\ IF save_dir = "None"
       THEN /\ pc' = "error"
            /\ exc' = "TypeError"
            /\ output' = output
       ELSE /\ pc' = "done"
            /\ exc' = exc
            /\ output' = [NoOutput EXCEPT !.keys = {"obj_revy", "obj_err", "diffr_err"},
                                          !.obj_revy = obj_revy,
                                          !.obj_err = obj_nrmse_ls,
                                          !.diffr_err = diffr_nrmse_ls]
    /\ UNCHANGED <<args, obj_ref, probe_ref, display_win, i, k, seq, obj_est,
                   probe_est, frm, frm_update, obj_revy, probe_revy, obj_nrmse_ls,
                   probe_nrmse_ls, diffr_nrmse_ls, warnings, visited, shuffles,
                   snaps, mf>>

\* ------------------------------------------------------- epie_joint_recon
JointInit ==
    /\ solver = "joint" /\ pc = "start"
    /\ display_win' = IF display_win.kind = "None" THEN Arr(Ones(Len(init_obj)))
                                                   ELSE display_win
    /\ obj_nrmse_ls' = <<>>
    /\ probe_nrmse_ls' = <<>>
    /\ diffr_nrmse_ls' = <<>>
    /\ seq' = [n \in 1..Cardinality(DOMAIN diffraction_data) |-> n - 1]
    /\ obj_est' = init_obj
    /\ probe_est' = init_probe
    /\ mf' = [obj |-> init_obj, probe |-> init_probe, frm |-> <<>>]
    /\ pc' = "loop"
    /\ UNCHANGED <<args, obj_ref, probe_ref, i, k, frm, frm_update, obj_revy,
                   probe_revy, output, exc, warnings, visited, shuffles, snaps>>

JointPassStart ==
    /\ solver = "joint" /\ pc = "loop" /\ LoopContinues(i, num_iter)
    /\ i' = i + 1
    /\ seq' \in Shuffle(seq)
    /\ shuffles' = shuffles + 1
    /\ k' = 0
    /\ visited' = <<>>
    /\ pc' = "pass"
    /\ UNCHANGED <<args, obj_ref, probe_ref, display_win, obj_est, probe_est, frm,
                   frm_update, obj_revy, probe_revy, obj_nrmse_ls, probe_nrmse_ls,
                   diffr_nrmse_ls, output, exc, warnings, snaps, mf>>

JointCorrect ==
    /\ solver = "joint" /\ pc = "pass" /\ k < Len(seq)
    /\ LET j == seq[k + 1]
           r == JointStep(obj_est, probe_est, diffraction_data[j],
                          projection_coords[j], obj_step_sz, probe_step_sz)
           m == JointStep(mf.obj, mf.probe, diffraction_data[j],
                          projection_coords[j], obj_step_sz, probe_step_sz)
       IN  /\ frm' = r.frm
           /\ obj_est' = r.obj
           /\ probe_est' = r.probe
           /\ warnings' = IF JointZeroDivide(obj_est, probe_est, projection_coords[j])
                          THEN warnings \cup {"RuntimeWarning"} ELSE warnings
           /\ visited' = Append(visited, j)
           /\ snaps' = Snap(k + 1, r.obj, r.probe)
           /\ mf' = [obj |-> m.obj, probe |-> m.probe, frm |-> m.frm]
    /\ k' = k + 1
    /\ UNCHANGED <<args, obj_ref, probe_ref, display_win, pc, i, seq, frm_update,
                   obj_revy, probe_revy, obj_nrmse_ls, probe_nrmse_ls,
                   diffr_nrmse_ls, output, exc, shuffles>>

JointDiffrErr ==
    /\ solver = "joint" /\ pc = "pass" /\ k = Len(seq)
    /\ diffr_nrmse_ls' = Append(diffr_nrmse_ls, DiffrNrmse(obj_est, probe_est))
    /\ pc' = "objerr"
    /\ UNCHANGED <<args, obj_ref, probe_ref, display_win, i, k, seq, obj_est,
                   probe_est, frm, frm_update, obj_revy, probe_revy, obj_nrmse_ls,
                   probe_nrmse_ls, output, exc, warnings, visited, shuffles,
                   snaps, mf>>

\* With obj_ref (probe_ref) None the names obj_revy and obj_ref (probe_revy and
\* probe_ref) are bound to the live estimate itself.
JointObjErr ==
    /\ solver = "joint" /\ pc = "objerr"
    /\ IF obj_ref.kind # "None"
       THEN /\ obj_revy' = Arr(ObjRevy(obj_est, Deref(obj_ref, obj_est), display_win.val))
            /\ obj_ref' = obj_ref
            /\ obj_est' = LiveAfterMaskedCopy(obj_est, display_win.val)
       ELSE /\ obj_revy' = LiveRef
            /\ obj_ref' = LiveRef
            /\ obj_est' = obj_est
    /\ IF probe_ref.kind # "None"
       THEN /\ probe_revy' = Arr(phase_norm(probe_est, Deref(probe_ref, probe_est)))
            /\ probe_ref' = probe_ref
       ELSE /\ probe_revy' = LiveRef
            /\ probe_ref' = LiveRef
    /\ obj_nrmse_ls' = Append(obj_nrmse_ls,
                              ObjNrmse(Deref(obj_revy', obj_est'),
                                       Deref(obj_ref', obj_est'), display_win.val))
    /\ probe_nrmse_ls' = Append(probe_nrmse_ls,
                                ProbeNrmse(Deref(probe_revy', probe_est),
                                           Deref(probe_ref', probe_est)))
    /\ pc' = "loop"
    /\ UNCHANGED <<args, display_win, i, k, seq, probe_est, frm, frm_update,
                   diffr_nrmse_ls, output, exc, warnings, visited, shuffles,
                   snaps, mf>>

\* save_dir + '...' raises TypeError when save_dir is None.
JointFinish ==
    /\ solver = "joint" /\ pc = "loop" /\ ~LoopContinues(i, num_iter)
    /\ IF save_dir = "None"
       THEN /\ pc' = "error"
            /\ exc' = "TypeError"
            /\ output' = output
       ELSE /\ pc' = "done"
            /\ exc' = exc
            /\ output' = [keys |-> {"obj_revy", "probe_revy", "obj_err",
                                    "probe_err", "diffr_err"},
                          obj_revy |-> obj_revy, probe_revy |-> probe_revy,
                          obj_err |-> obj_nrmse_ls, probe_err |-> probe_nrmse_ls,
                          diffr_err |-> diffr_nrmse_ls]
    /\ UNCHANGED <<args, obj_ref, probe_ref, display_win, i, k, seq, obj_est,
                   probe_est, frm, frm_update, obj_revy, probe_revy, obj_nrmse_ls,
                   probe_nrmse_ls, diffr_nrmse_ls, warnings, visited, shuffles,
                   snaps, mf>>

\* ---------------------------------------------------------- specification
Next ==
    \/ EpieInit
    \/ EpiePassStart
    \/ EpieCorrect
    \/ EpieDiffrErr
    \/ EpieObjErr
    \/ EpieFinish
    \/ JointInit
    \/ JointPassStart
    \/ JointCorrect
    \/ JointDiffrErr
    \/ JointObjErr
    \/ JointFinish

Spec == Init /\ [][Next]_vars

\* ================================================================ claims
\* A correction step: the inner loop body ran for measurement seq[k + 1].
CorrectStep == pc = "pass" /\ k' = k + 1

CurrentAgt == seq[k + 1]

\* The field the step projected: frm[j], fixed at the start of the pass, in
\* epie_recon; the local frm the step formed in epie_joint_recon.
FieldUsed == IF solver = "epie" THEN frm[CurrentAgt] ELSE frm'

\* The field the live object gives at the moment the step starts.
LiveField == ArrMul(Patch(obj_est, projection_coords[CurrentAgt]), probe_est)

\* C1: in both solvers every correction projects the field formed from the
\* object as the corrections made earlier in the same pass left it.
C1_FieldSeesEarlierWriteBacks ==
    [][(CorrectStep /\ AllFinite(obj_est) /\ AllFinite(probe_est))
       => FieldUsed = LiveField]_vars

\* One pass of epie_recon over `order`, as a function of the object and probe
\* the pass starts from.
RECURSIVE EpiePassTo(_, _, _, _, _)
EpiePassTo(obj, probe, stack, order, n) ==
    IF n = 0 THEN obj
    ELSE EpieStep(EpiePassTo(obj, probe, stack, order, n - 1), probe,
                  stack[order[n]], Data[order[n]], Coords[order[n]], One).obj

EpiePass(obj, probe, order) ==
    EpiePassTo(obj, probe, [j \in Agts |-> ArrMul(Patch(obj, Coords[j]), probe)],
               order, Len(order))

Pixels == {C(0, 0), C(1, 0), C(0, 1), C(-1, 0), C(1, 1)}

StartObjs == [1..ObjLen -> Pixels]

StartProbes == {<<C(1, 0), C(1, 1)>>, <<C(1, 0), C(1, 0)>>, <<C(0, 1), C(2, 0)>>}

Orders == Shuffle([n \in 1..NumAgts |-> n - 1])

\* C2: some object and probe exist from which two visiting orders of the
\* same overlapping measurements leave different objects after one pass of
\* epie_recon.
C2_OrderChangesEpiePass ==
    \E o \in StartObjs \cup {init_obj}, pr \in StartProbes \cup {init_probe} :
        \E s1 \in Orders, s2 \in Orders : EpiePass(o, pr, s1) # EpiePass(o, pr, s2)

\* C3: a joint correction whose pre-update patch or probe is all zeros leaves
\* both estimates finite and reports a NumericalInstabilityWarning.
C3_ZeroMagnitudeIsGuarded ==
    [][(/\ CorrectStep
        /\ solver = "joint"
        /\ AllFinite(obj_est) /\ AllFinite(probe_est)
        /\ \/ AllZero(Patch(obj_est, projection_coords[CurrentAgt]))
           \/ AllZero(probe_est))
       => /\ AllFinite(obj_est')
          /\ AllFinite(probe_est')
          /\ "NumericalInstabilityWarning" \in warnings']_vars

\* C5: with obj_ref None (and a save directory given) neither solver raises.
C5_NoReferenceNeverRaises ==
    (obj_ref_in.kind = "None" /\ save_dir # "None") => pc # "error"

\* The object the call returns under 'obj_revy' and the global phase factor
\* the last normalisation applied to it.
ReturnedObj == Deref(output.obj_revy, obj_est)

ReturnPhase ==
    IF output.obj_revy.kind = "live" THEN COne
    ELSE PhaseFactor(Mask(obj_est, display_win.val),
                     Mask(Deref(obj_ref, obj_est), display_win.val))

ExpectedDiffrErr(n) == DiffrNrmse(snaps[n].obj, snaps[n].probe)

ExpectedObjErr(n) ==
    LET o    == snaps[n].obj
        ref  == IF obj_ref_in.kind = "None" THEN o ELSE obj_ref_in.val
        revy == IF obj_ref_in.kind = "None" /\ n = 1
                THEN o ELSE ObjRevy(o, ref, display_win.val)
    IN  ObjNrmse(revy, ref, display_win.val)

CompletedPasses == IF pc = "pass" /\ k < NumAgts THEN i ELSE i + 1

\* C6: never more than num_iter passes; the run returns after exactly num_iter
\* passes with two histories of num_iter entries; between passes the two
\* histories are equally long; entry n is the error of the estimates at the
\* end of pass n.
C6_HistoriesFollowPasses ==
    pc # "start" =>
        /\ i + 1 <= num_iter
        /\ Len(snaps) = CompletedPasses
        /\ Len(diffr_nrmse_ls) = (IF pc = "pass" THEN i ELSE i + 1)
        /\ pc \in {"loop", "done"} =>
               Len(obj_nrmse_ls) = i + 1 /\ Len(diffr_nrmse_ls) = Len(obj_nrmse_ls)
        /\ pc = "done" =>
               /\ CompletedPasses = num_iter
               /\ output.obj_err = obj_nrmse_ls /\ Len(output.obj_err) = num_iter
               /\ output.diffr_err = diffr_nrmse_ls /\ Len(output.diffr_err) = num_iter
        /\ \A n \in 1..Len(diffr_nrmse_ls) : diffr_nrmse_ls[n] = ExpectedDiffrErr(n)
        /\ \A n \in 1..Len(obj_nrmse_ls) : obj_nrmse_ls[n] = ExpectedObjErr(n)

C6_Witness ==
    /\ pc = "done"
    /\ num_iter >= 2
    /\ AllFinite(obj_est)
    /\ output.obj_err[1] # output.obj_err[2]
    /\ output.diffr_err[1] # output.diffr_err[2]

\* C7: whatever obj_ref and display_win the run was given, its object and
\* probe (and the field stack of epie_recon) are those of the same corrections
\* in the same orders with no error monitor.
C7_MonitorIsSideChannel ==
    pc # "start" =>
        /\ obj_est = mf.obj
        /\ probe_est = mf.probe
        /\ (solver = "epie" /\ i >= 0) => frm = mf.frm

C7_Witness ==
    /\ solver = "joint"
    /\ obj_ref_in.kind = "None"
    /\ obj_ref.kind = "live"
    /\ \E p \in 1..ObjLen : display_win.val[p] = 0
    /\ pc = "done"
    /\ num_iter >= 2
    /\ AllFinite(obj_est)
    /\ obj_est # init_obj

\* C8: in epie_recon the probe of every correction and every error is the
\* probe the caller supplied, and the caller's probe_ref is untouched.
C8_EpieProbeReadOnly ==
    (solver = "epie" /\ pc # "start") =>
        probe_est = probe_ref_in.val /\ probe_ref = probe_ref_in

C8_Witness ==
    /\ solver = "epie"
    /\ pc = "done"
    /\ num_iter >= 2
    /\ AllFinite(obj_est)
    /\ obj_est # init_obj

IsPermutation(s) ==
    /\ Len(s) = NumAgts
    /\ \A j \in Agts : Cardinality({n \in 1..Len(s) : s[n] = j}) = 1

\* C9: the order is always a permutation of 0..N-1, it has been shuffled once
\* per pass started, the corrections of a pass follow it, and a finished pass
\* has corrected every measurement exactly once.
C9_OrderIsFreshPermutation ==
    pc # "start" =>
        /\ IsPermutation(seq)
        /\ shuffles = i + 1
        /\ pc \in {"pass", "objerr"} => visited = SubSeq(seq, 1, k)
        /\ (pc # "pass" /\ i >= 0) => IsPermutation(visited)

C9_Witness ==
    /\ pc = "objerr"
    /\ i >= 1
    /\ shuffles >= 2
    /\ seq # [n \in 1..NumAgts |-> n - 1]
    /\ visited = seq

\* C10: a joint correction forms its field from the probe the previous step
\* left, writes the object back with that same probe, and updates the probe
\* with the patch and the field difference taken before the write-back.
C10_JointStepUsesPreUpdateValues ==
    [][(CorrectStep /\ solver = "joint")
       => LET crd   == projection_coords[CurrentAgt]
              patch == Patch(obj_est, crd)
              field == ArrMul(patch, probe_est)
              delta == ArrSub(JointProject(field, diffraction_data[CurrentAgt]), field)
          IN  /\ frm' = field
              /\ obj_est' = AddAt(obj_est, crd,
                                  ObjIncrement(probe_est, delta, obj_step_sz))
              /\ probe_est' = ArrAdd(probe_est,
                                     ProbeIncrement(patch, delta, probe_step_sz))]_vars

C10_Witness ==
    /\ solver = "joint"
    /\ pc = "pass"
    /\ k >= 2
    /\ AllFinite(obj_est) /\ AllFinite(probe_est)
    /\ probe_est # init_probe
    /\ Patch(obj_est, projection_coords[seq[k]]) # Patch(init_obj, projection_coords[seq[k]])
    /\ frm # ArrMul(Patch(init_obj, projection_coords[seq[k]]), init_probe)

\* C11: a run called with save_dir None that has completed its num_iter passes
\* (both histories hold num_iter entries) does not end in an error state: it
\* skips persistence and returns its result dictionary.
C11_NoSaveDirStillReturns ==
    (/\ save_dir = "None"
     /\ pc \in {"done", "error"}
     /\ Len(obj_nrmse_ls) = num_iter
     /\ Len(diffr_nrmse_ls) = num_iter)
        => (pc = "done" /\ "obj_revy" \in output.keys)

====
